---- MODULE Spec2Model ----
(***************************************************************************)
(* Model of the batched loader (src/mem_load.py) and of the storage client *)
(* cache (src/storage_client.py).                                          *)
(*                                                                         *)
(* Text is modelled as sequences of one-character strings, so that         *)
(* str.strip, str.split, int() and float() are computed character by       *)
(* character as Python computes them.  Input lines are drawn from the      *)
(* finite set Lines of concrete lines.                                     *)
(***************************************************************************)
EXTENDS Integers, Sequences, FiniteSets, TLC

\* ------------------------------------------------------------------ bounds
\* Files matched by the glob pattern in one run.
MaxFiles == 2
\* Lines read from one file before end of file is forced.
MaxLines == 3
\* Worker threads of the client-cache specification.
NWorkers == 2
\* StorageManager calls made by each worker of the client-cache specification.
MaxCalls == 2
\* Largest counter values of the error-rate specification.
MaxProcessed == 1000
MaxErrors == 11

\* mem_load.py:12 sets BATCH_SIZE = 100_000; the model scales it down so that
\* a buffer can reach it within MaxLines lines.  Every formula below is stated
\* in terms of BATCH_SIZE, not of its value.
BATCH_SIZE == 2

\* NORMAL_ERR_RATE = 0.01 (mem_load.py:13) as the fraction 1 / 100.
NORMAL_ERR_RATE_NUM == 1
NORMAL_ERR_RATE_DEN == 100

\* ------------------------------------------------------------------ text
TAB == "\t"
SP == " "
Whitespace == {TAB, SP}
Digits == {"0", "1", "2", "3"}

DigitVal(c) == CASE c = "0" -> 0 [] c = "1" -> 1 [] c = "2" -> 2 [] c = "3" -> 3

\* Index of the first / last character that is no whitespace (Len(s) + 1 / 0
\* when there is none).
FirstNonSpace(s) ==
    IF \E i \in 1..Len(s) : s[i] \notin Whitespace
    THEN CHOOSE i \in 1..Len(s) :
            s[i] \notin Whitespace /\ \A j \in 1..(i - 1) : s[j] \in Whitespace
    ELSE Len(s) + 1
LastNonSpace(s) ==
    IF \E i \in 1..Len(s) : s[i] \notin Whitespace
    THEN CHOOSE i \in 1..Len(s) :
            s[i] \notin Whitespace /\ \A j \in (i + 1)..Len(s) : s[j] \in Whitespace
    ELSE 0

\* str.strip(): leading and trailing whitespace removed.
Strip(s) == SubSeq(s, FirstNonSpace(s), LastNonSpace(s))

\* str.split(sep): the pieces between occurrences of sep, empty pieces kept;
\* always at least one piece.
Split(s, sep) ==
    LET seps == {i \in 1..Len(s) : s[i] = sep}
        n == Cardinality(seps)
        \* position of the k-th separator; 0 and Len(s) + 1 bound the text
        pos(k) == IF k = 0 THEN 0
                  ELSE IF k = n + 1 THEN Len(s) + 1
                  ELSE CHOOSE i \in seps : Cardinality({j \in seps : j < i}) = k - 1
    IN  [k \in 1..(n + 1) |-> SubSeq(s, pos(k - 1) + 1, pos(k) - 1)]

AllDigits(s) == \A i \in 1..Len(s) : s[i] \in Digits

\* Value of a run of decimal digits (0 for the empty run).
DigitsVal(s) ==
    LET v[i \in 0..Len(s)] == IF i = 0 THEN 0 ELSE 10 * v[i - 1] + DigitVal(s[i])
    IN  v[Len(s)]

\* int(s) succeeds: over the model's alphabet (no sign, no underscore) that is
\* a non-empty run of digits, surrounding whitespace allowed.
IntOk(s) == Strip(s) # <<>> /\ AllDigits(Strip(s))
IntVal(s) == DigitsVal(Strip(s))

\* float(s) succeeds: over the model's alphabet that is digits with at most one
\* point and at least one digit, surrounding whitespace allowed.
FloatPartsOk(p) ==
    /\ Len(p) \in {1, 2}
    /\ \A i \in 1..Len(p) : AllDigits(p[i])
    /\ \E i \in 1..Len(p) : p[i] # <<>>
FloatOk(s) == FloatPartsOk(Split(Strip(s), "."))

Pow10(n) == LET v[i \in 0..n] == IF i = 0 THEN 1 ELSE 10 * v[i - 1] IN v[n]

\* Number of trailing zeros of m that can be dropped from k decimals.
Droppable(m, k) ==
    CHOOSE j \in 0..k : m % Pow10(j) = 0 /\ \A i \in (j + 1)..k : m % Pow10(i) # 0
DropZeros(m, k, j) == <<m \div Pow10(j), k - j>>
Normalize(m, k) == DropZeros(m, k, Droppable(m, k))

\* The decimal with integer digits int and fraction digits frac as m / 10^k in
\* lowest form <<m, k>>, so that "1" and "1.0" denote the same number and
\* "1.5" another.
Decimal(int, frac) ==
    Normalize(DigitsVal(int) * Pow10(Len(frac)) + DigitsVal(frac), Len(frac))
FloatPartsVal(p) == Decimal(p[1], IF Len(p) = 2 THEN p[2] ELSE <<>>)
\* float(s)
FloatVal(s) == FloatPartsVal(Split(Strip(s), "."))

\* '\t'.join(fields), for the 3, 5 and 6 fields of the input lines
JoinTab(fields) ==
    LET sep(i) == IF i < Len(fields) THEN <<TAB>> ELSE <<>>
        f(i) == IF i <= Len(fields) THEN fields[i] \o sep(i) ELSE <<>>
    IN  f(1) \o f(2) \o f(3) \o f(4) \o f(5) \o f(6)

\* ------------------------------------------------------------------ parser
idfa == <<"i", "d", "f", "a">>
gaid == <<"g", "a", "i", "d">>
adid == <<"a", "d", "i", "d">>
dvid == <<"d", "v", "i", "d">>

ReturnNone == [kind |-> "None"]
Raise(e) == [kind |-> "raise", exc |-> e]
AppsInstalled(dev_type, dev_id, lat, lon, apps) ==
    [kind |-> "record", dev_type |-> dev_type, dev_id |-> dev_id,
     lat |-> lat, lon |-> lon, apps |-> apps]

\* [int(a.strip()) for a in raw_apps.split(",")]
AppsOk(toks) == \A i \in 1..Len(toks) : IntOk(toks[i])
AppsVal(toks) == [i \in 1..Len(toks) |-> IntVal(toks[i])]

\* parse_appsinstalled from the unpacked fields on (lines 51-66).  When some
\* token of raw_apps is no integer, the handler of ValueError evaluates
\* a.isidigit() on the first token (split yields at least one), and str has no
\* such attribute: AttributeError.
ParseFields(dev_type, dev_id, lat, lon, toks) ==
    IF dev_type = <<>> \/ dev_id = <<>> THEN ReturnNone
    ELSE IF ~AppsOk(toks) THEN Raise("AttributeError")
    ELSE IF ~(FloatOk(lat) /\ FloatOk(lon)) THEN ReturnNone
    ELSE AppsInstalled(dev_type, dev_id, FloatVal(lat), FloatVal(lon), AppsVal(toks))

\* parse_appsinstalled from line_parts on (lines 47-50).  Unpacking line_parts
\* into five names raises ValueError when there are more than five parts.
ParseParts(line_parts) ==
    IF Len(line_parts) < 5 THEN ReturnNone
    ELSE IF Len(line_parts) # 5 THEN Raise("ValueError")
    ELSE ParseFields(line_parts[1], line_parts[2], line_parts[3], line_parts[4],
                     Split(line_parts[5], ","))

\* parse_appsinstalled(line): the record, None, or the exception it raises.
parse_appsinstalled(line) == ParseParts(Split(Strip(line), TAB))

\* ------------------------------------------------------------------ input lines
GoodLat == <<"1", ".", "0">>
GoodLon == <<"2">>

\* Well-formed lines of known device types.
GoodLines ==
    {JoinTab(<<idfa, id, GoodLat, GoodLon, apps>>) :
        id \in {<<"1">>, <<"2">>}, apps \in {<<"1", ",", "2">>}}
    \cup {JoinTab(<<idfa, <<"1">>, GoodLat, GoodLon, <<"3">>>>)}
    \cup {JoinTab(<<dvid, <<"1">>, <<SP, "1">>, <<"0", ".", "1", "0">>,
                     <<"1", ",", SP, "2">>>>),
          \* with whitespace around the line
          <<SP>> \o JoinTab(<<gaid, <<"2">>, <<".", "1">>, <<"1", ".">>, <<"1">>>>)
                \o <<TAB>>}

BlankLines == {<<>>, <<SP>>, <<TAB, SP>>}

\* Lines with something wrong, one per case.
OddLines ==
    { \* fewer than 5 fields
      JoinTab(<<idfa, <<"1">>, GoodLat>>),
      \* empty dev_type: the leading tab is stripped, 4 fields remain
      JoinTab(<<<<>>, <<"1">>, GoodLat, GoodLon, <<"1">>>>),
      \* empty apps: the trailing tab is stripped, 4 fields remain
      JoinTab(<<idfa, <<"1">>, GoodLat, GoodLon, <<>>>>),
      \* empty dev_id
      JoinTab(<<idfa, <<>>, GoodLat, GoodLon, <<"1">>>>),
      \* dev_id of one space
      JoinTab(<<idfa, <<SP>>, GoodLat, GoodLon, <<"1">>>>),
      \* 6 fields
      JoinTab(<<idfa, <<"1">>, GoodLat, GoodLon, <<"1">>, <<"x">>>>),
      \* an app token that is no integer
      JoinTab(<<idfa, <<"1">>, GoodLat, GoodLon, <<"1", ",", "x">>>>),
      \* an empty app token
      JoinTab(<<idfa, <<"1">>, GoodLat, GoodLon, <<"1", ",", ",", "2">>>>),
      \* lat that is no number
      JoinTab(<<idfa, <<"1">>, <<"x">>, GoodLon, <<"1">>>>),
      \* lon that is no number
      JoinTab(<<gaid, <<"1">>, GoodLat, <<"1", ".", "2", ".", "3">>, <<"1">>>>),
      \* lat that is no number and an app token that is no integer
      JoinTab(<<idfa, <<"1">>, <<"x">>, GoodLon, <<"x">>>>),
      \* unknown device type
      JoinTab(<<<<"x">>, <<"1">>, GoodLat, GoodLon, <<"1">>>>),
      \* known device type followed by a space inside the field
      JoinTab(<<idfa \o <<SP>>, <<"1">>, GoodLat, GoodLon, <<"1">>>>) }

Lines == GoodLines \cup BlankLines \cup OddLines

\* parse_appsinstalled applied to every stripped input line, computed once.
ParseTable == [l \in Lines |-> parse_appsinstalled(Strip(l))]

\* ------------------------------------------------------------------ routing
\* The option defaults of mem_load.py:147-150.
DefaultIdfa == "127.0.0.1:6380"
DefaultGaid == "127.0.0.1:6381"
DefaultAdid == "127.0.0.1:6382"
DefaultDvid == "127.0.0.1:6383"

None == "None"

\* device_storage of main(), in insertion order.
DeviceTypes == <<idfa, gaid, adid, dvid>>
device_storage ==
    [t \in {idfa, gaid, adid, dvid} |->
        CASE t = idfa -> DefaultIdfa [] t = gaid -> DefaultGaid
          [] t = adid -> DefaultAdid [] t = dvid -> DefaultDvid]

\* Faulty variant of device_storage_get: an unknown device type falls back to the
\* first address.
device_storage_get_default(dev_type) ==
    IF dev_type \in DOMAIN device_storage THEN device_storage[dev_type] ELSE DefaultIdfa

\* device_storage.get(dev_type)
device_storage_get(dev_type) ==
    IF dev_type \in DOMAIN device_storage THEN device_storage[dev_type] ELSE None

\* device_storage.values(), the iteration order of data.items().
AddrOrder == [i \in 1..Len(DeviceTypes) |-> device_storage[DeviceTypes[i]]]
Addrs == {AddrOrder[i] : i \in 1..Len(AddrOrder)}

\* ------------------------------------------------------------------ dicts
EmptyDict == [k \in {} |-> <<>>]
DictLen(d) == Cardinality(DOMAIN d)
\* Faulty variant of DictUpdate: a key already present keeps its value.
DictUpdateKeepFirst(d, k, v) ==
    [x \in DOMAIN d \cup {k} |-> IF x \in DOMAIN d THEN d[x] ELSE v]

\* d.update({k: v})
DictUpdate(d, k, v) == [x \in DOMAIN d \cup {k} |-> IF x = k THEN v ELSE d[x]]

\* prepare_data(appsinstalled): the key "<dev_type>:<dev_id>" and the
\* serialised UserApps message, modelled by the triple of its fields.
prepare_data(a) ==
    [key |-> a.dev_type \o <<":">> \o a.dev_id, value |-> <<a.lat, a.lon, a.apps>>]

\* ------------------------------------------------------------------ state
VARIABLES
    dry,        \* options.dry
    pc,         \* position of main(): "files", "lines", "eof", "rate", "done", "crashed"
    nFiles,     \* number of files glob.iglob(options.pattern) yields
    fileIdx,    \* index of the file being processed (0 before the first)
    lineNo,     \* lines read from the current file
    processed,  \* main(): processed
    errors,     \* main(): errors
    data,       \* main(): data, address -> dict of key -> value
    eofIdx,     \* position of the loop over data.items() after the last line
    renamed,    \* files renamed to their dot-prefixed name
    logged,     \* per finished file, the error-rate message logged
    exitStatus, \* None while running, "0" or "1" once the process has ended
    flushes,    \* history: the calls of insert_appsinstalled for the current file, in order
    rejected,   \* history: lines of the current file counted as errors when read
    unknown,    \* history: lines of the current file with an unknown device type
    routed,     \* history: per address, records of the current file put into its buffer
    entered,    \* history: per address, those of them that added a key to the buffer
    nonblank,   \* history: non-blank lines read from the current file
    lookups,    \* history: evaluations of StorageManager.set_many by the loader
    submitted,  \* history: tasks handed to thread_executor.submit
    clients,    \* StorageManager.clients, address -> client
    created,    \* history: address -> clients constructed for it
    store,      \* contents of the backends, address -> dict of key -> value
    wpc,        \* per worker thread: position inside a StorageManager call
    wcall,      \* per worker thread: the call in progress
    wtmp,       \* per worker thread: client constructed and not yet cached
    wgot,       \* per worker thread: client returned by get_client
    wgets,      \* history: per worker, address -> clients get_client returned
    ncalls      \* per worker thread: calls started

loaderVars ==
    <<dry, pc, nFiles, fileIdx, lineNo, processed, errors, data, eofIdx,
      renamed, logged, exitStatus, flushes, rejected, unknown, routed, entered, nonblank, lookups,
      submitted>>
cacheVars == <<clients, created, store, wpc, wcall, wtmp, wgot, wgets, ncalls>>
vars == <<loaderVars, cacheVars>>

Workers == 1..NWorkers

\* ------------------------------------------------------------------ storage client
\* The attributes of class StorageManager.
StorageManagerAttrs == {"clients", "get_client", "set", "get"}

\* Faulty variant of insert_appsinstalled: the dry_run flag is ignored.
insert_appsinstalled_ignoring_dry(addr, mapping, dry_run) ==
    [ret |-> "False", lookup |-> TRUE, submit |-> FALSE]

\* insert_appsinstalled(addr, data, thread_executor, dry_run): the value it
\* returns, whether it evaluated StorageManager.set_many, and whether it handed
\* a task to the pool.  With dry_run it falls off the end and returns None.
\* Otherwise the argument StorageManager.set_many is evaluated before submit is
\* called; StorageManager has no such attribute, AttributeError is raised
\* inside the try block and the handler returns False.
insert_appsinstalled(addr, mapping, dry_run) ==
    IF dry_run
    THEN [ret |-> "None", lookup |-> FALSE, submit |-> FALSE]
    ELSE IF "set_many" \notin StorageManagerAttrs
         THEN [ret |-> "False", lookup |-> TRUE, submit |-> FALSE]
         \* not taken: no StorageManager of this repository has set_many
         ELSE [ret |-> "True", lookup |-> TRUE, submit |-> TRUE]

\* Python truth value of what insert_appsinstalled returns.
Truthy(ret) == ret = "True"

\* Faulty variant of FlushCount: a failed flush is not counted at all.
FlushCountDropsFailed(res, count, p, e) ==
    IF Truthy(res.ret) THEN [processed |-> p + count, errors |-> e]
    ELSE [processed |-> p, errors |-> e]

\* One call of insert_appsinstalled as main() accounts for it: the counters
\* after "if ok: processed += count else: errors += count".
FlushCount(res, count, p, e) ==
    IF Truthy(res.ret) THEN [processed |-> p + count, errors |-> e]
    ELSE [processed |-> p, errors |-> e + count]

FlushRecord(kind, addr, mapping, res) ==
    [file |-> fileIdx, kind |-> kind, addr |-> addr, mapping |-> mapping,
     size |-> DictLen(mapping), ret |-> res.ret, lookup |-> res.lookup,
     submit |-> res.submit]

\* err_rate < NORMAL_ERR_RATE with err_rate = float(errors) / processed if
\* processed else 1, compared as fractions.
ErrRate(p, e) == IF p # 0 THEN <<e, p>> ELSE <<1, 1>>
\* Faulty variant of RateBelow: a rate equal to the threshold is accepted.
RateBelowOrEqual(r, num, den) == r[1] * den <= num * r[2]

RateBelow(r, num, den) == r[1] * den < num * r[2]
LoadMessage(p, e) ==
    IF RateBelow(ErrRate(p, e), NORMAL_ERR_RATE_NUM, NORMAL_ERR_RATE_DEN)
    THEN "Successfull load" ELSE "Failed load"

\* ------------------------------------------------------------------ loader
\* Faulty variant of ProcessExit: a run with a failed load exits with status 1.
ProcessExitOnFailedLoad(exc, messages) ==
    IF exc # None \/ \E i \in DOMAIN messages : messages[i] = "Failed load"
    THEN "1" ELSE "0"

\* The exit status of the process (lines 158-163): sys.exit(1) when an
\* exception escaped main(), otherwise the script runs to its end, status 0,
\* whatever was logged for the files.
ProcessExit(exc, messages) == IF exc # None THEN "1" ELSE "0"

FreshData == [a \in Addrs |-> EmptyDict]

\* Faulty variant of BatchFull: the buffer is flushed one entry late.
BatchFullLate(count) == count > BATCH_SIZE

\* (count := len(data[storage_addr])) >= BATCH_SIZE
BatchFull(count) == count >= BATCH_SIZE

\* What handling one line leaves behind: the counters and buffers, the call
\* of insert_appsinstalled made (if any), the exception that escaped (if any),
\* and what the line adds to the history counters.
Outcome(p, e, d, flush, exc, rej, unk, addr, ent, nonbl) ==
    [processed |-> p, errors |-> e, data |-> d, flush |-> flush, exc |-> exc,
     rejected |-> rej, unknown |-> unk, addr |-> addr, entered |-> ent,
     nonblank |-> nonbl]

\* Faulty variant of HandleFlush: the flushed buffer is not cleared.
HandleFlushKeep(addr, buf, grew, res, c, d) ==
    Outcome(c.processed, c.errors, [d EXCEPT ![addr] = buf],
            <<FlushRecord("threshold", addr, buf, res)>>, None, 0, 0, addr, grew, 1)

\* Lines 100-106: the full buffer is flushed, counted and cleared.
HandleFlush(addr, buf, grew, res, c, d) ==
    Outcome(c.processed, c.errors, [d EXCEPT ![addr] = EmptyDict],
            <<FlushRecord("threshold", addr, buf, res)>>, None, 0, 0, addr, grew, 1)

HandleFull(addr, buf, grew, res, p, e, d) ==
    HandleFlush(addr, buf, grew, res, FlushCount(res, DictLen(buf), p, e), d)

\* Lines 98-99: the buffer after data[storage_addr].update(...), and whether
\* it has reached BATCH_SIZE.
HandleBuffer(addr, buf, grew, p, e, d, dr) ==
    IF BatchFull(DictLen(buf))
    THEN HandleFull(addr, buf, grew, insert_appsinstalled(addr, buf, dr), p, e, d)
    ELSE Outcome(p, e, [d EXCEPT ![addr] = buf], <<>>, None, 0, 0, addr, grew, 1)

HandleInsert(addr, kv, p, e, d, dr) ==
    HandleBuffer(addr, DictUpdate(d[addr], kv.key, kv.value),
                 IF kv.key \in DOMAIN d[addr] THEN 0 ELSE 1, p, e, d, dr)

\* Lines 93-98: routing by device type.
HandleRouted(appsinstalled, storage_addr, p, e, d, dr) ==
    IF storage_addr = None
    THEN Outcome(p, e + 1, d, <<>>, None, 1, 1, None, 0, 1)
    ELSE HandleInsert(storage_addr, prepare_data(appsinstalled), p, e, d, dr)

\* Lines 89-93: the result of parse_appsinstalled.
HandleParsed(appsinstalled, p, e, d, dr) ==
    IF appsinstalled.kind = "raise"
    THEN Outcome(p, e, d, <<>>, appsinstalled.exc, 0, 0, None, 0, 1)
    ELSE IF appsinstalled.kind = "None"
    THEN Outcome(p, e + 1, d, <<>>, None, 1, 0, None, 0, 1)
    ELSE HandleRouted(appsinstalled, device_storage_get(appsinstalled.dev_type),
                      p, e, d, dr)

\* The body of "for line in fd" for one line.
HandleLine(line, p, e, d, dr) ==
    IF Strip(line) = <<>>
    THEN Outcome(p, e, d, <<>>, None, 0, 0, None, 0, 0)
    ELSE HandleParsed(ParseTable[line], p, e, d, dr)

Lookups(fl) == IF fl # <<>> /\ fl[1].lookup THEN 1 ELSE 0
Submits(fl) == IF fl # <<>> /\ fl[1].submit THEN 1 ELSE 0

\* for fn in glob.iglob(options.pattern): the next file is opened.
StartFile ==
    /\ pc = "files"
    /\ fileIdx < nFiles
    /\ fileIdx' = fileIdx + 1
    /\ processed' = 0
    /\ errors' = 0
    /\ data' = FreshData
    /\ lineNo' = 0
    /\ rejected' = 0
    /\ unknown' = 0
    /\ routed' = [a \in Addrs |-> 0]
    /\ entered' = [a \in Addrs |-> 0]
    /\ nonblank' = 0
    /\ flushes' = <<>>
    /\ pc' = "lines"
    /\ UNCHANGED <<dry, nFiles, eofIdx, renamed, logged, exitStatus,
                   lookups, submitted, cacheVars>>

\* The state after one line, from what handling it leaves behind.
ApplyLine(r) ==
    /\ processed' = r.processed
    /\ errors' = r.errors
    /\ data' = r.data
    /\ flushes' = flushes \o r.flush
    /\ rejected' = rejected + r.rejected
    /\ unknown' = unknown + r.unknown
    /\ routed' = IF r.addr = None THEN routed ELSE [routed EXCEPT ![r.addr] = @ + 1]
    /\ entered' = IF r.addr = None THEN entered
                  ELSE [entered EXCEPT ![r.addr] = @ + r.entered]
    /\ nonblank' = nonblank + r.nonblank
    /\ lookups' = lookups + Lookups(r.flush)
    /\ submitted' = submitted + Submits(r.flush)
    /\ pc' = IF r.exc = None THEN "lines" ELSE "crashed"
    /\ exitStatus' = IF r.exc = None THEN exitStatus ELSE ProcessExit(r.exc, logged)

\* for line in fd: one line is read and handled; an exception that escapes
\* leaves main() and the process exits with status 1.
ReadLine(line) ==
    /\ pc = "lines"
    /\ lineNo < MaxLines
    /\ lineNo' = lineNo + 1
    /\ ApplyLine(HandleLine(line, processed, errors, data, dry))
    /\ UNCHANGED <<dry, nFiles, fileIdx, eofIdx, renamed, logged, cacheVars>>

\* The file has no more lines.
EndOfLines ==
    /\ pc = "lines"
    /\ pc' = "eof"
    /\ eofIdx' = 1
    /\ UNCHANGED <<dry, nFiles, fileIdx, lineNo, processed, errors, data,
                   renamed, logged, exitStatus, flushes, rejected, unknown, routed, entered, nonblank,
                   lookups, submitted, cacheVars>>

\* One iteration of "for addr, values_dict in data.items()": a non-empty
\* buffer is flushed and counted; it is not cleared.
EofCounted(addr, values_dict, res, c) ==
    [processed |-> c.processed, errors |-> c.errors,
     flush |-> <<FlushRecord("eof", addr, values_dict, res)>>]

EofInsert(addr, values_dict, res, p, e) ==
    EofCounted(addr, values_dict, res, FlushCount(res, DictLen(values_dict), p, e))

EofFlushStep(addr, values_dict, p, e, dr) ==
    IF DictLen(values_dict) # 0
    THEN EofInsert(addr, values_dict, insert_appsinstalled(addr, values_dict, dr), p, e)
    ELSE [processed |-> p, errors |-> e, flush |-> <<>>]

ApplyEof(r) ==
    /\ processed' = r.processed
    /\ errors' = r.errors
    /\ flushes' = flushes \o r.flush
    /\ lookups' = lookups + Lookups(r.flush)
    /\ submitted' = submitted + Submits(r.flush)

EofFlush ==
    /\ pc = "eof"
    /\ eofIdx <= Len(AddrOrder)
    /\ ApplyEof(EofFlushStep(AddrOrder[eofIdx], data[AddrOrder[eofIdx]],
                             processed, errors, dry))
    /\ eofIdx' = eofIdx + 1
    /\ UNCHANGED <<dry, pc, nFiles, fileIdx, lineNo, data, renamed, logged,
                   exitStatus, rejected, unknown, routed, entered, nonblank, cacheVars>>

\* Faulty variant of EofLoopDone: the loop stops before the last address.
EofLoopDoneEarly(i) == i >= Len(AddrOrder)

\* The loop over data.items() is over when every address has had its turn.
EofLoopDone(i) == i > Len(AddrOrder)

\* dot_rename(fn)
Rename ==
    /\ pc = "eof"
    /\ EofLoopDone(eofIdx)
    /\ renamed' = renamed \cup {fileIdx}
    /\ pc' = "rate"
    /\ UNCHANGED <<dry, nFiles, fileIdx, lineNo, processed, errors, data,
                   eofIdx, logged, exitStatus, flushes, rejected, unknown, routed, entered, nonblank,
                   lookups, submitted, cacheVars>>

\* Faulty variant of AfterLogRate: a failed load ends the loop over the files.
AfterLogRateStopOnFailure(message) ==
    IF message = "Failed load" THEN "done" ELSE "files"

\* Where main() goes on after logging a file's result (lines 118-122): both
\* branches only log, and the loop over the files takes its next turn.
AfterLogRate(message) == "files"

\* The error rate is computed and the file's result is logged.
LogRate ==
    /\ pc = "rate"
    /\ logged' = Append(logged, LoadMessage(processed, errors))
    /\ pc' = AfterLogRate(LoadMessage(processed, errors))
    /\ UNCHANGED <<dry, nFiles, fileIdx, lineNo, processed, errors, data,
                   eofIdx, renamed, exitStatus, flushes, rejected, unknown, routed, entered, nonblank,
                   lookups, submitted, cacheVars>>

\* glob.iglob is exhausted: main() returns and the process ends normally.
Finish ==
    /\ pc = "files"
    /\ fileIdx = nFiles
    /\ pc' = "done"
    /\ exitStatus' = ProcessExit(None, logged)
    /\ UNCHANGED <<dry, nFiles, fileIdx, lineNo, processed, errors, data,
                   eofIdx, renamed, logged, flushes, rejected, unknown, routed, entered, nonblank,
                   lookups, submitted, cacheVars>>

\* ------------------------------------------------------------------ client cache
\* Inputs of the StorageManager calls the worker threads make.
CacheAddrs == {DefaultIdfa, DefaultGaid}
CacheKeys == {idfa \o <<":">> \o <<"1">>}
CacheValues == {"v1", "v2"}
NoCall == [op |-> None, addr |-> None, key |-> <<>>, value |-> None]
NoClient == [kind |-> None, addr |-> None, n |-> 0]

\* StorageFabric.get_client(name, addr): a new client object; n tells the
\* objects constructed for one address apart.
StorageFabric_get_client(name, addr, n) ==
    IF name = "memcache" THEN [kind |-> "memcache", addr |-> addr, n |-> n]
    ELSE IF name = "redis" THEN [kind |-> "redis", addr |-> addr, n |-> n]
    ELSE Raise("ValueError")

\* cls.clients.get(addr) is falsy: no client is cached for addr.
ClientMissing(cache, addr) == addr \notin DOMAIN cache

\* A thread calls StorageManager.set(addr, key, value) or
\* StorageManager.get(addr, key); both start with cls.get_client(addr).
Call(w, op, addr, key, value) ==
    /\ wpc[w] = "idle"
    /\ ncalls[w] < MaxCalls
    /\ ncalls' = [ncalls EXCEPT ![w] = @ + 1]
    /\ wcall' = [wcall EXCEPT ![w] = [op |-> op, addr |-> addr, key |-> key,
                                      value |-> IF op = "set" THEN value ELSE None]]
    /\ wpc' = [wpc EXCEPT ![w] = "check"]
    /\ UNCHANGED <<clients, created, store, wtmp, wgot, wgets, loaderVars>>

\* get_client: if not cls.clients.get(addr)
Check(w) ==
    /\ wpc[w] = "check"
    /\ wpc' = [wpc EXCEPT ![w] =
                 IF ClientMissing(clients, wcall[w].addr) THEN "construct" ELSE "return"]
    /\ UNCHANGED <<clients, created, store, wcall, wtmp, wgot, wgets, ncalls, loaderVars>>

\* get_client: the right-hand side StorageFabric.get_client("redis", addr)
Construct(w) ==
    /\ wpc[w] = "construct"
    /\ LET a == wcall[w].addr
           c == StorageFabric_get_client("redis", a, Cardinality(created[a]) + 1)
       IN  /\ wtmp' = [wtmp EXCEPT ![w] = c]
           /\ created' = [created EXCEPT ![a] = @ \cup {c}]
    /\ wpc' = [wpc EXCEPT ![w] = "assign"]
    /\ UNCHANGED <<clients, store, wcall, wgot, wgets, ncalls, loaderVars>>

\* get_client: cls.clients[addr] = <the client constructed>
Assign(w) ==
    /\ wpc[w] = "assign"
    /\ clients' = DictUpdate(clients, wcall[w].addr, wtmp[w])
    /\ wtmp' = [wtmp EXCEPT ![w] = NoClient]
    /\ wpc' = [wpc EXCEPT ![w] = "return"]
    /\ UNCHANGED <<created, store, wcall, wgot, wgets, ncalls, loaderVars>>

\* get_client: return cls.clients.get(addr)
Return(w) ==
    /\ wpc[w] = "return"
    /\ LET a == wcall[w].addr
       IN  /\ wgot' = [wgot EXCEPT ![w] = clients[a]]
           /\ wgets' = [wgets EXCEPT ![w][a] = @ \cup {clients[a]}]
    /\ wpc' = [wpc EXCEPT ![w] = "use"]
    /\ UNCHANGED <<clients, created, store, wcall, wtmp, ncalls, loaderVars>>

\* set: client.set(key, value) / get: return client.get(key), on the backend
\* the client is connected to.
Use(w) ==
    /\ wpc[w] = "use"
    /\ LET c == wcall[w]
           a == wgot[w].addr
       IN  store' = IF c.op = "set"
                    THEN [store EXCEPT ![a] = DictUpdate(@, c.key, c.value)]
                    ELSE store
    /\ wpc' = [wpc EXCEPT ![w] = "idle"]
    /\ wcall' = [wcall EXCEPT ![w] = NoCall]
    /\ wgot' = [wgot EXCEPT ![w] = NoClient]
    /\ UNCHANGED <<clients, created, wtmp, wgets, ncalls, loaderVars>>

\* ------------------------------------------------------------------ specifications
InitCache ==
    /\ clients = EmptyDict
    /\ created = [a \in Addrs |-> {}]
    /\ store = [a \in Addrs |-> EmptyDict]
    /\ wpc = [w \in Workers |-> "idle"]
    /\ wcall = [w \in Workers |-> NoCall]
    /\ wtmp = [w \in Workers |-> NoClient]
    /\ wgot = [w \in Workers |-> NoClient]
    /\ wgets = [w \in Workers |-> [a \in Addrs |-> {}]]
    /\ ncalls = [w \in Workers |-> 0]

InitLoader ==
    /\ dry \in BOOLEAN
    /\ nFiles \in 0..MaxFiles
    /\ pc = "files"
    /\ fileIdx = 0
    /\ lineNo = 0
    /\ processed = 0
    /\ errors = 0
    /\ data = FreshData
    /\ eofIdx = 0
    /\ renamed = {}
    /\ logged = <<>>
    /\ exitStatus = None
    /\ flushes = <<>>
    /\ rejected = 0
    /\ unknown = 0
    /\ routed = [a \in Addrs |-> 0]
    /\ entered = [a \in Addrs |-> 0]
    /\ nonblank = 0
    /\ lookups = 0
    /\ submitted = 0

Init == InitLoader /\ InitCache

\* The loader: python mem_load.py [--dry]
Next ==
    \/ StartFile
    \/ \E line \in Lines : ReadLine(line)
    \/ EndOfLines
    \/ EofFlush
    \/ Rename
    \/ LogRate
    \/ Finish

Spec == Init /\ [][Next]_vars

\* Threads calling StorageManager.set and StorageManager.get concurrently.
NextCache ==
    \E w \in Workers :
        \/ \E op \in {"set", "get"}, a \in CacheAddrs, k \in CacheKeys, v \in CacheValues :
               Call(w, op, a, k, v)
        \/ Check(w)
        \/ Construct(w)
        \/ Assign(w)
        \/ Return(w)
        \/ Use(w)

SpecCache == Init /\ [][NextCache]_vars

\* The error-rate decision of main() for every pair of counters within the
\* bounds: a file has just been renamed with these counters.
InitRate ==
    /\ InitCache
    /\ dry \in BOOLEAN
    /\ nFiles = 1
    /\ pc = "rate"
    /\ fileIdx = 1
    /\ lineNo = 0
    /\ processed \in 0..MaxProcessed
    /\ errors \in 0..MaxErrors
    /\ data = FreshData
    /\ eofIdx = Len(AddrOrder) + 1
    /\ renamed = {1}
    /\ logged = <<>>
    /\ exitStatus = None
    /\ flushes = <<>>
    /\ rejected = 0
    /\ unknown = 0
    /\ routed = [a \in Addrs |-> 0]
    /\ entered = [a \in Addrs |-> 0]
    /\ nonblank = 0
    /\ lookups = 0
    /\ submitted = 0

SpecRate == InitRate /\ [][LogRate]_vars

\* The loader never stops for good while it has something to do.
FairSpec == Spec /\ WF_vars(Next)

\* ------------------------------------------------------------------ properties
\* Total of a per-address counter.
Total(f) == LET v[i \in 0..Len(AddrOrder)] ==
                    IF i = 0 THEN 0 ELSE v[i - 1] + f[AddrOrder[i]]
            IN  v[Len(AddrOrder)]

Idx(a) == CHOOSE i \in 1..Len(AddrOrder) : AddrOrder[i] = a
FlushesOf(a) == SelectSeq(flushes, LAMBDA f : f.addr = a)
\* The loop after the last line has dealt with address a.
EofPassed(a) ==
    \/ pc = "eof" /\ eofIdx > Idx(a)
    \/ pc = "rate"
    \/ pc \in {"files", "done"} /\ fileIdx > 0
FileFinished == pc = "rate" \/ (pc \in {"files", "done"} /\ fileIdx > 0)

\* C1: with dry-run enabled every flush is counted in `processed` and nothing
\* of it in `errors`, so `errors` counts only rejected lines and lines of an
\* unknown device type.
C1_DryRunCountsAsWritten ==
    dry => /\ errors = rejected
           /\ \A i \in DOMAIN flushes : Truthy(flushes[i].ret)
           /\ FileFinished => processed = Total(entered)

\* C2: for every address exactly one client is ever constructed, and every
\* caller of get_client gets that same client, whatever the interleaving.
C2_SingleClientPerAddress ==
    \A a \in Addrs :
        /\ Cardinality(created[a]) <= 1
        /\ Cardinality(UNION {wgets[w][a] : w \in Workers}) <= 1

\* C3: without dry-run a flush of a non-empty buffer (the backend never
\* refuses a write in this model) writes every key of the buffer to the store
\* of its address and is counted in `processed`, not in `errors`.
C3_FlushSucceeds ==
    ~dry => \A i \in DOMAIN flushes :
                /\ Truthy(flushes[i].ret)
                /\ flushes[i].submit
                /\ DOMAIN flushes[i].mapping \subseteq DOMAIN store[flushes[i].addr]

\* C4: for an address whose N records of the file had pairwise distinct keys
\* within each batch, the file's flushes for that address are N div BATCH_SIZE
\* threshold flushes of exactly BATCH_SIZE entries, followed, once the loop
\* after the last line has reached the address, by one flush of N mod
\* BATCH_SIZE entries when that is not zero and by none when it is zero; the
\* buffer holds N mod BATCH_SIZE entries.
C4_FlushBoundary ==
    \A a \in Addrs :
        (fileIdx > 0 /\ routed[a] = entered[a]) =>
            LET N == routed[a]
                fa == FlushesOf(a)
                th == N \div BATCH_SIZE
                rem == N % BATCH_SIZE
            IN  /\ Len(fa) >= th
                /\ \A i \in 1..th : fa[i].kind = "threshold" /\ fa[i].size = BATCH_SIZE
                /\ DictLen(data[a]) = rem
                /\ IF EofPassed(a) /\ rem # 0
                   THEN /\ Len(fa) = th + 1
                        /\ fa[th + 1].kind = "eof"
                        /\ fa[th + 1].size = rem
                   ELSE Len(fa) = th

\* N = BATCH_SIZE + 1 records of distinct keys for one address: a flush of
\* BATCH_SIZE followed by a final flush of 1.
C4_Witness ==
    /\ pc = "rate"
    /\ routed[DefaultIdfa] = BATCH_SIZE + 1
    /\ entered[DefaultIdfa] = BATCH_SIZE + 1
    /\ Len(flushes) = 2
    /\ flushes[1].kind = "threshold" /\ flushes[1].size = BATCH_SIZE
    /\ flushes[2].kind = "eof" /\ flushes[2].size = 1

\* C5: parse_appsinstalled raises for no input line, so no line makes an
\* exception escape main() and end the run.
C5_ParserNeverRaises ==
    /\ pc # "crashed"
    /\ exitStatus # "1"

\* C6: a file whose lines have all been read gets renamed, whatever its
\* counters; a file is renamed only after the loop over the buffers has
\* flushed every non-empty buffer and counted it, and exactly the finished
\* files are renamed.
C6_RenamedOnlyAfterFlush ==
    /\ renamed = {f \in 1..nFiles : f < fileIdx \/ (f = fileIdx /\ FileFinished)}
    /\ fileIdx \in renamed =>
          /\ processed + errors = rejected + Total(entered)
          /\ \A a \in Addrs :
                DictLen(data[a]) # 0 =>
                    \E i \in DOMAIN flushes :
                        /\ flushes[i].kind = "eof"
                        /\ flushes[i].addr = a
                        /\ flushes[i].mapping = data[a]
C6_RenamedAfterLastLine ==
    /\ []C6_RenamedOnlyAfterFlush
    /\ (pc = "eof") ~> (pc = "rate" /\ fileIdx \in renamed)

\* A renamed file with no successful write and a buffer flushed at end of file.
C6_Witness ==
    /\ pc = "rate"
    /\ fileIdx \in renamed
    /\ processed = 0
    /\ errors > rejected
    /\ rejected > 0
    /\ \E i \in DOMAIN flushes : flushes[i].kind = "eof"

\* C7: the load is logged as successful exactly when processed > 0 and
\* 100 * errors < processed; processed = 0 is a failed load, 99 with 1 error
\* is a failed load, 999 with 1 error is a successful load.
C7_ErrorRateThreshold ==
    logged # <<>> =>
        LET ok == logged[Len(logged)] = "Successfull load"
        IN  /\ logged[Len(logged)] \in {"Successfull load", "Failed load"}
            /\ ok <=> (processed > 0 /\ 100 * errors < processed)
            /\ processed = 0 => ~ok
            /\ (processed = 99 /\ errors = 1) => ~ok
            /\ (processed = 999 /\ errors = 1) => ok

C7_Witness ==
    /\ logged = <<"Successfull load">>
    /\ processed = 999
    /\ errors = 1

\* Well-formed lines whose device type is none of the four routing keys.
UnknownTypeLines ==
    {l \in Lines : /\ ParseTable[l].kind = "record"
                   /\ ParseTable[l].dev_type \notin {idfa, gaid, adid, dvid}}

\* C8: reading a well-formed line of an unknown device type adds exactly 1 to
\* `errors` and leaves `processed`, every buffer, the flushes and the stores
\* as they were.
C8_UnknownTypeCountedOnly ==
    [][\A l \in UnknownTypeLines :
          ReadLine(l) =>
              /\ errors' = errors + 1
              /\ unknown' = unknown + 1
              /\ processed' = processed
              /\ data' = data
              /\ flushes' = flushes
              /\ store' = store
              /\ submitted' = submitted
              /\ pc' = "lines"]_vars

C8_Witness ==
    /\ UnknownTypeLines # {}
    /\ unknown = 2
    /\ errors = 2
    /\ processed = 0
    /\ \A a \in Addrs : data[a] = EmptyDict

\* C9: with dry-run enabled the loader never evaluates StorageManager.set_many,
\* never submits a task, and no client is constructed or cached and no store
\* written.
C9_DryRunIsolation ==
    dry => /\ lookups = 0
           /\ submitted = 0
           /\ clients = EmptyDict
           /\ \A a \in Addrs : created[a] = {} /\ store[a] = EmptyDict
           /\ \A i \in DOMAIN flushes : ~flushes[i].lookup /\ ~flushes[i].submit

\* Dry run in which lines were rejected and routed, a buffer reached
\* BATCH_SIZE and was flushed, another was flushed at end of file, and the
\* file was renamed.
C9_Witness ==
    /\ dry
    /\ fileIdx \in renamed
    /\ routed[DefaultIdfa] > 0
    /\ \E i, j \in DOMAIN flushes :
          flushes[i].kind = "threshold" /\ flushes[j].kind = "eof"

\* C10: a flush counted in `errors` without dry-run is a write that was handed
\* to the pool and whose wait failed or timed out, so that the write can still
\* complete in the background.
C10_FailedFlushWasSubmitted ==
    ~dry => \A i \in DOMAIN flushes :
                ~Truthy(flushes[i].ret) => flushes[i].submit

\* C11: the process exits with status 1 exactly when an exception escaped
\* main(); a run that returns from main() ends with status 0 also when files
\* were logged as failed loads and when every flush failed.
C11_ExitStatusOnlyOnException ==
    /\ exitStatus = "1" <=> pc = "crashed"
    /\ exitStatus = "0" <=> pc = "done"
    /\ exitStatus = None <=> pc \notin {"done", "crashed"}
    /\ exitStatus \in {None, "0", "1"}

\* A finished run of at least one file in which every file was a failed load
\* and every flush of the last file failed.
C11_Witness ==
    /\ pc = "done"
    /\ exitStatus = "0"
    /\ nFiles > 0
    /\ Len(logged) = nFiles
    /\ \A i \in DOMAIN logged : logged[i] = "Failed load"
    /\ flushes # <<>>
    /\ \A i \in DOMAIN flushes : ~Truthy(flushes[i].ret)

\* The tab-separated fields of a line after trimming the line.
FieldsOf(l) == Split(Strip(l), TAB)

\* Non-blank lines with fewer than 5 fields, or whose dev_type or dev_id field
\* is empty after trimming the field.
ShortOrNoIdLines ==
    {l \in Lines :
        /\ Strip(l) # <<>>
        /\ \/ Len(FieldsOf(l)) < 5
           \/ Strip(FieldsOf(l)[1]) = <<>>
           \/ Strip(FieldsOf(l)[2]) = <<>>}

\* C12: for every line with fewer than 5 fields after trimming, and for every
\* line whose dev_type or dev_id is empty after trimming (a dev_id of spaces
\* included), parse_appsinstalled returns None and no record: reading the
\* line counts one error and leaves every buffer as it was.
C12_ShortOrNoIdRejected ==
    [][\A l \in ShortOrNoIdLines :
          ReadLine(l) =>
              /\ ParseTable[l] = ReturnNone
              /\ errors' = errors + 1
              /\ rejected' = rejected + 1
              /\ data' = data]_vars

\* C13: unless an exception escapes main(), the run ends having processed
\* and renamed every file, in order: a file is started only when all files
\* before it are renamed, and failed loads or failed flushes do not stop it.
C13_OneFileAfterAnother ==
    /\ pc \in {"lines", "eof"} => renamed = 1..(fileIdx - 1)
    /\ pc = "done" => renamed = 1..nFiles /\ Len(logged) = nFiles
C13_RunCompletes ==
    /\ []C13_OneFileAfterAnother
    /\ [][fileIdx' # fileIdx => fileIdx' = fileIdx + 1 /\ renamed = 1..fileIdx]_vars
    /\ <>(pc = "crashed" \/ (pc = "done" /\ renamed = 1..nFiles))

\* A finished run of MaxFiles files without dry-run, the first of them already
\* a failed load with a failed flush.
C13_Witness ==
    /\ pc = "done"
    /\ ~dry
    /\ nFiles = MaxFiles
    /\ renamed = 1..MaxFiles
    /\ logged[1] = "Failed load"
    /\ lookups >= MaxFiles

\* The loader never hands a task to the pool (see C3), so no write is ever
\* in flight.
NothingSubmitted == submitted = 0

\* Lines that parse to a record of a known device type.
RoutedLines ==
    {l \in Lines : /\ ParseTable[l].kind = "record"
                   /\ ParseTable[l].dev_type \in DOMAIN device_storage}

\* `after` is `before` with key bound to value: one entry per key, the other
\* entries untouched.
HoldsLatest(before, after, key, value) ==
    /\ DOMAIN after = DOMAIN before \cup {key}
    /\ after[key] = value
    /\ \A k \in DOMAIN before \ {key} : after[k] = before[k]
    /\ DictLen(after) = DictLen(before) + (IF key \in DOMAIN before THEN 0 ELSE 1)

\* Reading a line with storage key kv.key for address a: without a flush the
\* buffer holds the line's payload under its key and neither counter moves;
\* a flush is triggered only by a key that was not in the buffer, and what is
\* flushed holds the line's payload under its key.
BufferStep(a, kv) ==
    IF flushes' = flushes
    THEN /\ HoldsLatest(data[a], data'[a], kv.key, kv.value)
         /\ processed' = processed
         /\ errors' = errors
    ELSE /\ kv.key \notin DOMAIN data[a]
         /\ Len(flushes') = Len(flushes) + 1
         /\ HoldsLatest(data[a], flushes'[Len(flushes')].mapping, kv.key, kv.value)
         /\ flushes'[Len(flushes')].addr = a
         /\ processed' + errors' = processed + errors + DictLen(data[a]) + 1

\* C15: the buffer of an address holds one entry per storage key, whose value
\* is the payload of the latest line with that key since the last flush; a
\* repeated key leaves the buffer's size as it was, triggers no flush and
\* changes neither counter.
C15_LatestPayloadPerKey ==
    [][\A l \in RoutedLines :
          ReadLine(l) =>
              BufferStep(device_storage[ParseTable[l].dev_type],
                         prepare_data(ParseTable[l]))]_vars

\* Two lines with the key idfa:1 were read, the later one with the apps 3:
\* the buffer has the one entry, with the later payload.
C15_Witness ==
    /\ pc = "lines"
    /\ routed[DefaultIdfa] = 2
    /\ entered[DefaultIdfa] = 1
    /\ flushes = <<>>
    /\ DOMAIN data[DefaultIdfa] = {idfa \o <<":">> \o <<"1">>}
    /\ data[DefaultIdfa][idfa \o <<":">> \o <<"1">>][3] = <<3>>
    /\ processed = 0
    /\ errors = 0

\* Entries flushed so far for address a in the current file.
SumSizes(fa) ==
    LET v[i \in 0..Len(fa)] == IF i = 0 THEN 0 ELSE v[i - 1] + fa[i].size
    IN  v[Len(fa)]
FlushedSize(a) == SumSizes(FlushesOf(a))

\* Every entry that entered the buffer of an address in the current file has
\* been flushed once or is still waiting in the buffer, never both and never
\* twice; a new file starts with nothing flushed and nothing buffered.
C16_NothingResubmitted ==
    \A a \in Addrs :
        FlushedSize(a) + (IF EofPassed(a) THEN 0 ELSE DictLen(data[a])) = entered[a]

\* The threshold flush f has just been made: it carried what the buffer
\* held, the buffer of its address is empty whatever the flush returned, and
\* the other buffers are as they were.
ThresholdFlushClears(f) ==
    /\ f.kind = "threshold"
    /\ DOMAIN data[f.addr] \subseteq DOMAIN f.mapping
    /\ data'[f.addr] = EmptyDict
    /\ \A b \in Addrs \ {f.addr} : data'[b] = data[b]

\* C16: after every threshold flush the buffer of the flushed address is
\* empty, whether the flush succeeded or failed, and the other buffers are
\* unchanged; no entry is handed to a later flush of the same file or of a
\* later file.
C16_FlushClearsBuffer ==
    /\ []C16_NothingResubmitted
    /\ [][(pc = "lines" /\ Len(flushes') > Len(flushes)) =>
              ThresholdFlushClears(flushes'[Len(flushes')])]_vars

\* A threshold flush failed; its buffer is empty and another address still
\* has its entries.
C16_Witness ==
    /\ pc = "lines"
    /\ ~dry
    /\ Len(flushes) = 1
    /\ flushes[1].kind = "threshold"
    /\ ~Truthy(flushes[1].ret)
    /\ data[flushes[1].addr] = EmptyDict
    /\ \E b \in Addrs \ {flushes[1].addr} : data[b] # EmptyDict

\* C17: the client cache is append-only: an address that has a client in
\* StorageManager.clients keeps that very client, whatever calls of set and
\* get (both through get_client) the threads make and however they interleave.
C17_CacheAppendOnly ==
    [][\A a \in DOMAIN clients :
          a \in DOMAIN clients' /\ clients'[a] = clients[a]]_vars

\* Lines of exactly 5 fields with non-empty dev_type and dev_id whose lat or
\* lon is no decimal number.
BadCoordLines ==
    {l \in Lines :
        /\ Len(FieldsOf(l)) = 5
        /\ FieldsOf(l)[1] # <<>>
        /\ FieldsOf(l)[2] # <<>>
        /\ ~(FloatOk(FieldsOf(l)[3]) /\ FloatOk(FieldsOf(l)[4]))}

\* C18: for a line of 5 fields with non-empty identifiers whose lat or lon
\* is no decimal number, parse_appsinstalled returns None; reading the line
\* adds exactly 1 to `errors`, puts nothing into any buffer, and the loader
\* goes on with the next line.
C18_BadCoordsRejected ==
    [][\A l \in BadCoordLines :
          ReadLine(l) =>
              /\ ParseTable[l] = ReturnNone
              /\ errors' = errors + 1
              /\ processed' = processed
              /\ data' = data
              /\ flushes' = flushes
              /\ pc' = "lines"]_vars

\* The counters of the current file against what was read from it: every
\* rejected or unknown-type line is counted once in `errors`, every entry
\* flushed so far once in `processed` or `errors`, and entries still waiting
\* in a buffer not yet.
C20_CountersMatchLines ==
    /\ pc = "lines" /\ lineNo = 0 => processed = 0 /\ errors = 0
    /\ unknown <= rejected
    /\ rejected <= errors
    /\ pc # "crashed" => nonblank = rejected + Total(routed)
    /\ processed + errors = rejected + Total([a \in Addrs |-> FlushedSize(a)])
    /\ fileIdx \in renamed =>
          /\ processed + errors = rejected + Total(entered)
          /\ processed + errors <= nonblank
          /\ (\A a \in Addrs : routed[a] = entered[a]) => processed + errors = nonblank

\* C20: per file the counters start at 0; each rejected line and each line of
\* an unknown device type is counted once in `errors`; each buffered entry is
\* counted once, in `processed` or in `errors`, by the time the file is
\* renamed; then processed + errors is at most the number of non-blank
\* lines, and equal to it when no key was repeated within a batch; a blank
\* line changes neither counter.
C20_PerFileAccounting ==
    /\ []C20_CountersMatchLines
    /\ [][\A l \in BlankLines :
              ReadLine(l) => /\ processed' = processed
                             /\ errors' = errors
                             /\ data' = data
                             /\ flushes' = flushes
                             /\ pc' = "lines"]_vars
    /\ [][fileIdx' # fileIdx => processed' = 0 /\ errors' = 0]_vars

\* The second file of a run has been renamed after a blank line, a rejected
\* line and a buffered entry that was counted at end of file.
C20_Witness ==
    /\ pc = "rate"
    /\ fileIdx = 2
    /\ fileIdx \in renamed
    /\ lineNo = 3
    /\ nonblank = 2
    /\ rejected = 1
    /\ Total(entered) = 1
    /\ processed + errors = 2

====
